---- MODULE Spec2Model ----
(***************************************************************************)
(* braindiff: the Errors module (tryCatch, trySync, WrappedError, wrap)    *)
(* and the drop-schema maintenance script, as state machines.              *)
(*                                                                         *)
(*   Spec      callers of Errors.try / Errors.trySync: promises settle,    *)
(*             calls are made and resumed in any interleaving.             *)
(*   WrapSpec  callers of Errors.wrap over a heap of error objects.        *)
(*   DropSpec  src/db/scripts/drop.ts run on an argument list.             *)
(*   BundleSpec    callers of the frozen Errors bundle.                    *)
(*   DropLiveSpec  DropSpec with the fairness of the script's own steps.   *)
(***************************************************************************)
EXTENDS Integers, Sequences, FiniteSets, TLC

VARIABLES
    calls,          \* the calls of Errors.try / Errors.trySync made so far, each
                    \* Errors.try call with the promise it was given
    fnInvocations,  \* how many times each callable has been invoked
    Errors,         \* the exported bundle: its four properties, and whether frozen
    assigned,       \* the assignments to properties of Errors attempted so far
    heap,           \* error objects by address (identity = address)
    wrapLog,        \* the calls of Errors.wrap made so far, with what was read back
    walk,           \* the last call of WrappedError.cause: argument, result, iterations
    schemaNames,    \* drop.ts: process.argv.slice(2)
    pc,             \* drop.ts: position of dropSchemas
    idx,            \* drop.ts: position of the for-of loop in schemaNames
    success,        \* drop.ts: the success flag
    inflight,       \* drop.ts: the promise of the drop statement being awaited
    issued,         \* drop.ts: the schema names db.execute was called with, in order
    settled,        \* drop.ts: how each issued statement settled, in the same order
    console,        \* drop.ts: the lines written to the console, in order
    exitCode        \* drop.ts: the status process.exit was called with (-1: still running)

bundleVars == <<Errors, assigned>>
tryVars == <<calls, fnInvocations, bundleVars>>
wrapVars == <<heap, wrapLog, walk>>
dropVars ==
    <<schemaNames, pc, idx, success, inflight, issued, settled, console, exitCode>>
vars == <<calls, fnInvocations, Errors, assigned, heap, wrapLog, walk,
          schemaNames, pc, idx, success, inflight, issued, settled, console, exitCode>>

(***************************************************************************)
(* Bounds of the model.                                                    *)
(***************************************************************************)
MaxCalls == 2
MaxAssigns == 2
MaxObjects == 3
MaxNames == 3

(***************************************************************************)
(* JavaScript values. A string is the sequence of its characters; an       *)
(* object is named by its address, so that equality of two object values   *)
(* is identity.                                                            *)
(***************************************************************************)
Undefined == [t |-> "undefined", n |-> 0, s |-> <<>>]
Null == [t |-> "null", n |-> 0, s |-> <<>>]
Num(k) == [t |-> "number", n |-> k, s |-> <<>>]
Str(chars) == [t |-> "string", n |-> 0, s |-> chars]
Ref(a) == [t |-> "object", n |-> a, s |-> <<>>]

\* The values a promise settles with or a callable returns or throws:
\* falsy and truthy primitives, and two distinct Error objects.
Values ==
    {Undefined, Null, Num(0), Str(<<>>), Str(<<"a">>), Ref(1), Ref(2)}

\* ToBoolean, as `if (result.error)` applies it.
Truthy(v) ==
    CASE v.t = "undefined" -> FALSE
      [] v.t = "null" -> FALSE
      [] v.t = "number" -> v.n # 0
      [] v.t = "string" -> v.s # <<>>
      [] OTHER -> TRUE

(***************************************************************************)
(* Completions. A completion is what evaluating an expression produced:    *)
(* a value, or a thrown value.                                             *)
(***************************************************************************)
Normal(v) == [threw |-> FALSE, val |-> v]
Throw(v) == [threw |-> TRUE, val |-> v]

\* `await promise` on a settled promise: the fulfilment value, or the
\* rejection value thrown at the await.
Await(p) == IF p.state = "fulfilled" THEN Normal(p.val) ELSE Throw(p.val)

\* The zero-argument callables given to trySync: one that returns a value,
\* one that throws a value, and one with a side effect, which returns the
\* number of times it was invoked before.
Callables ==
    [kind : {"returns", "throws"}, val : Values]
        \cup {[kind |-> "counter", val |-> Undefined]}

NoCallable == [kind |-> "none", val |-> Undefined]

\* fn(), when fn was invoked n times before.
Invoke(f, n) ==
    CASE f.kind = "returns" -> Normal(f.val)
      [] f.kind = "throws" -> Throw(f.val)
      [] OTHER -> Normal(Num(n))

(***************************************************************************)
(* Errors.try and Errors.trySync. The result of a call is how the call     *)
(* itself completed ("return", or "throw" if the failure escaped), the     *)
(* two slots of the returned object, and the invocations of the wrapped    *)
(* operation it made.                                                      *)
(***************************************************************************)
Success(data) == [data |-> data, error |-> Undefined]
Failure(error) == [data |-> Undefined, error |-> error]

Returned(result, trace) ==
    [completion |-> "return", data |-> result.data, error |-> result.error,
     trace |-> trace]
Escaped(v, trace) ==
    [completion |-> "throw", data |-> Undefined, error |-> v, trace |-> trace]

\* tryCatch with `data || undefined`: a falsy success value is dropped.
tryCatch_DropsFalsy(promise) ==
    LET c == Await(promise)
    IN  IF ~c.threw
        THEN Returned(Success(IF Truthy(c.val) THEN c.val ELSE Undefined), <<c>>)
        ELSE Returned(Failure(c.val), <<c>>)

\* tryCatch whose catch adds context: the caught value is put inside a new
\* error object (at an address no existing object has).
tryCatch_Wrapping(promise) ==
    LET c == Await(promise)
    IN  IF ~c.threw
        THEN Returned(Success(c.val), <<c>>)
        ELSE Returned(Failure(Ref(0)), <<c>>)

\* tryCatch whose catch fills both slots with the caught value.
tryCatch_BothSlots(promise) ==
    LET c == Await(promise)
    IN  IF ~c.threw
        THEN Returned(Success(c.val), <<c>>)
        ELSE Returned([data |-> c.val, error |-> c.val], <<c>>)

\* tryCatch whose catch handles Error objects only and rethrows the rest.
tryCatch_OnlyErrors(promise) ==
    LET c == Await(promise)
    IN  IF ~c.threw
        THEN Returned(Success(c.val), <<c>>)
        ELSE IF c.val.t = "object"
             THEN Returned(Failure(c.val), <<c>>)
             ELSE Escaped(c.val, <<c>>)

\* async function tryCatch(promise), resumed once `promise` has settled.
tryCatch(promise) ==
    LET c == Await(promise)
    IN  IF ~c.threw
        THEN Returned(Success(c.val), <<c>>)
        ELSE Returned(Failure(c.val), <<c>>)

\* trySync that calls fn once to probe it and once more for the value.
trySync_Twice(fn, n) ==
    LET c0 == Invoke(fn, n)
        c == Invoke(fn, n + 1)
    IN  IF ~c.threw
        THEN Returned(Success(c.val), <<c0, c>>)
        ELSE Returned(Failure(c.val), <<c0, c>>)

\* function trySync(fn), fn having been invoked n times before.
trySync(fn, n) ==
    LET c == Invoke(fn, n)
    IN  IF ~c.threw
        THEN Returned(Success(c.val), <<c>>)
        ELSE Returned(Failure(c.val), <<c>>)

(***************************************************************************)
(* The bundle: export const Errors = Object.freeze({try: tryCatch,         *)
(* trySync, wrap, WrappedError}).                                          *)
(***************************************************************************)
Keys == {"try", "trySync", "wrap", "WrappedError"}

\* Object.freeze(obj): the object itself, its properties made read-only.
ObjectFreeze(obj) == [obj EXCEPT !.frozen = TRUE]

\* obj[key] = value: a frozen object keeps its property (and the assignment
\* throws a TypeError, the module being in strict mode).
Put(obj, key, value) ==
    IF obj.frozen
    THEN [obj |-> obj, threw |-> TRUE]
    ELSE [obj |-> [obj EXCEPT !.props[key] = value], threw |-> FALSE]

ErrorsProps ==
    [key \in Keys |->
        CASE key = "try" -> "tryCatch"
          [] key = "trySync" -> "trySync"
          [] key = "wrap" -> "wrap"
          [] OTHER -> "WrappedError"]

\* The bundle exported without Object.freeze.
ErrorsModule_NotFrozen == [frozen |-> FALSE, props |-> ErrorsProps]

\* The value of Errors once the module is loaded.
ErrorsModule == ObjectFreeze([frozen |-> FALSE, props |-> ErrorsProps])

\* Some code tries to replace an entry point: Errors[key] = other.
Assign(key) ==
    /\ Len(assigned) < MaxAssigns
    /\ LET r == Put(Errors, key, "other")
       IN  /\ Errors' = r.obj
           /\ assigned' = Append(assigned, [key |-> key, threw |-> r.threw,
                                             callsBefore |-> Len(calls)])
    /\ UNCHANGED <<calls, fnInvocations, wrapVars, dropVars>>

(***************************************************************************)
(* The callers of Errors.try and Errors.trySync.                           *)
(***************************************************************************)
\* What a call gives when the bundle no longer holds the original function.
Replaced == [completion |-> "replaced", data |-> Undefined, error |-> Undefined,
             trace |-> <<>>]

Pending == [state |-> "pending", val |-> Undefined]
NoResult == [completion |-> "none", data |-> Undefined, error |-> Undefined,
             trace |-> <<>>]

\* The promises a caller may hand to Errors.try: still pending, or already
\* fulfilled or rejected with any value.
Promises ==
    {Pending} \cup [state : {"fulfilled", "rejected"}, val : Values]

\* Errors.try(promise): the async function runs to its await and suspends,
\* whether or not the promise has settled already.
TryCall(promise) ==
    /\ Len(calls) < MaxCalls
    /\ calls' = Append(calls, [fn |-> "try", promise |-> promise,
                               callable |-> NoCallable, before |-> 0,
                               pc |-> "await", result |-> NoResult])
    /\ UNCHANGED <<fnInvocations, bundleVars, wrapVars, dropVars>>

\* The operation behind the promise of call c completes or fails.
Settle(c, state, v) ==
    /\ calls[c].fn = "try"
    /\ calls[c].promise.state = "pending"
    /\ calls' = [calls EXCEPT ![c].promise = [state |-> state, val |-> v]]
    /\ UNCHANGED <<fnInvocations, bundleVars, wrapVars, dropVars>>

\* tryCatch keeping the promise in a module-level variable, which the latest
\* call overwrites: a resumed call reads the latest promise, if it has settled.
TryResume_SharedPromise(c) ==
    /\ calls[c].pc = "await"
    /\ calls[c].promise.state # "pending"
    /\ LET latest == calls[Len(calls)].promise
       IN  calls' = [calls EXCEPT ![c].pc = "done",
                                  ![c].result = tryCatch(IF latest.state # "pending"
                                                         THEN latest
                                                         ELSE calls[c].promise)]
    /\ UNCHANGED <<fnInvocations, bundleVars, wrapVars, dropVars>>

\* The awaited promise has settled: the call resumes and completes.
TryResume(c) ==
    /\ calls[c].pc = "await"
    /\ calls[c].promise.state # "pending"
    /\ calls' = [calls EXCEPT ![c].pc = "done",
                              ![c].result = tryCatch(calls[c].promise)]
    /\ UNCHANGED <<fnInvocations, bundleVars, wrapVars, dropVars>>

\* Errors.trySync(fn): the function the bundle holds under trySync runs to
\* completion in one step.
TrySyncCall(f) ==
    /\ Len(calls) < MaxCalls
    /\ LET r == IF Errors.props["trySync"] = "trySync"
                THEN trySync(f, fnInvocations[f])
                ELSE Replaced
       IN  /\ calls' = Append(calls, [fn |-> "trySync", promise |-> Pending, callable |-> f,
                                      before |-> fnInvocations[f], pc |-> "done",
                                      result |-> r])
           /\ fnInvocations' = [fnInvocations EXCEPT ![f] = @ + Len(r.trace)]
    /\ UNCHANGED <<bundleVars, wrapVars, dropVars>>

(***************************************************************************)
(* Error objects, WrappedError and Errors.wrap.                            *)
(***************************************************************************)
\* The messages errors are created with.
Messages == {<<>>, <<"A">>, <<"B">>}

\* new Error(message): the message is kept as given; no cause field.
Error(message) ==
    [class |-> "Error", name |-> "Error", message |-> message,
     hasCause |-> FALSE, cause |-> Undefined]

\* new WrappedError(message, cause): super(message), then name and cause.
WrappedError(message, cause) ==
    [Error(message) EXCEPT !.class = "WrappedError", !.name = "WrappedError",
                           !.hasCause = TRUE, !.cause = cause]

\* An unwrap that returns the error's own message, not its cause.
unwrap_Message(this) == Str(this.message)

\* WrappedError.prototype.unwrap, on the object itself.
unwrap(this) == this.cause

\* function wrap(cause, message): note the order of the arguments.
wrap(cause, message) == WrappedError(message, cause)

\* Error.prototype.toString, which renders a plain Error: its name, ": " and
\* its message, or the name alone when the message is empty.
ErrorName == <<"E", "r", "r", "o", "r">>
Separator == <<":", " ">>

ErrorToString(this) ==
    IF this.message = <<>> THEN ErrorName ELSE ErrorName \o Separator \o this.message

\* A rendering that appends the cause's message, not its rendering.
toString_CauseMessage(h, this) ==
    IF h[this.n].class = "WrappedError"
    THEN h[this.n].message \o Separator \o h[h[this.n].cause.n].message
    ELSE ErrorToString(h[this.n])

\* WrappedError.prototype.toString on the object `this` refers to:
\* `${this.message}: ${this.cause.toString()}`, the cause rendering itself
\* by its own toString.
RECURSIVE toString(_, _)
toString(h, this) ==
    IF h[this.n].class = "WrappedError"
    THEN h[this.n].message \o Separator \o toString(h, h[this.n].cause)
    ELSE ErrorToString(h[this.n])

(***************************************************************************)
(* WrappedError.cause: the walk along the cause fields.                    *)
(***************************************************************************)
\* v instanceof Error: every object of the heap is an Error or a WrappedError.
InstanceOfError(h, v) ==
    /\ v.t = "object"
    /\ v.n \in DOMAIN h
    /\ h[v.n].class \in {"Error", "WrappedError"}

\* A loop condition that follows the cause of WrappedError instances only.
LoopCondition_OnlyWrapped(h, result) ==
    /\ h[result.n].class = "WrappedError"
    /\ h[result.n].cause \notin {Null, Undefined}
    /\ InstanceOfError(h, h[result.n].cause)

\* "cause" in result && result.cause != null && result.cause instanceof Error
LoopCondition(h, result) ==
    /\ h[result.n].hasCause
    /\ h[result.n].cause \notin {Null, Undefined}
    /\ InstanceOfError(h, h[result.n].cause)

\* The while loop, having run `steps` iterations: result = result.cause
\* as long as the condition holds.
RECURSIVE causeLoop(_, _, _)
causeLoop(h, result, steps) ==
    IF LoopCondition(h, result)
    THEN causeLoop(h, h[result.n].cause, steps + 1)
    ELSE [result |-> result, steps |-> steps]

\* A walk that stops after the first link: `return error.cause`.
WrappedErrorCause_OneStep(h, error) ==
    IF h[error.n].hasCause
    THEN [result |-> h[error.n].cause, steps |-> 1]
    ELSE [result |-> error, steps |-> 0]

\* static cause(error): let result = error; the loop; return result.
WrappedErrorCause(h, error) == causeLoop(h, error, 0)

NoWalk == [called |-> FALSE, start |-> Undefined, result |-> Undefined, steps |-> 0]

\* A walk that shortens the chain behind it: the error it was given is
\* re-linked to the result.
CauseCall_Compresses(error) ==
    /\ LET r == WrappedErrorCause(heap, error)
       IN  /\ walk' = [called |-> TRUE, start |-> error, result |-> r.result,
                       steps |-> r.steps]
           /\ heap' = IF r.steps >= 2
                      THEN [heap EXCEPT ![error.n].cause = r.result]
                      ELSE heap
    /\ UNCHANGED <<wrapLog, tryVars, dropVars>>

\* A caller asks for the root cause of an existing error (wrapped or not).
CauseCall(error) ==
    /\ LET r == WrappedErrorCause(heap, error)
       IN  walk' = [called |-> TRUE, start |-> error, result |-> r.result,
                    steps |-> r.steps]
    /\ UNCHANGED <<heap, wrapLog, tryVars, dropVars>>

(***************************************************************************)
(* The callers of Errors.wrap and WrappedError.                            *)
(***************************************************************************)
\* A lower-level operation fails with a plain Error, which may carry a
\* cause field of its own (new Error(message, {cause})).
NewError(message, hasCause, cause) ==
    /\ Len(heap) < MaxObjects
    /\ heap' = Append(heap, [Error(message) EXCEPT !.hasCause = hasCause,
                                                   !.cause = cause])
    /\ UNCHANGED <<wrapLog, walk, tryVars, dropVars>>

\* Errors.wrap that also links the cause back to its new wrapper.
Wrap_BackLink(cause, message) ==
    /\ Len(heap) < MaxObjects
    /\ LET a == Len(heap) + 1
           new == wrap(cause, message)
       IN  /\ heap' = Append([heap EXCEPT ![cause.n].hasCause = TRUE,
                                          ![cause.n].cause = Ref(a)], new)
           /\ wrapLog' = Append(wrapLog,
                  [cause |-> cause, message |-> message, result |-> Ref(a),
                   unwrapped |-> unwrap(new), ownMessage |-> new.message,
                   ownName |-> new.name,
                   rendered |-> toString(Append(heap, new), Ref(a)),
                   root |-> WrappedErrorCause(Append(heap, new), Ref(a)).result])
    /\ UNCHANGED <<walk, tryVars, dropVars>>

\* Errors.wrap that puts the new context into the cause's message as well.
Wrap_AnnotatesCause(cause, message) ==
    /\ Len(heap) < MaxObjects
    /\ LET a == Len(heap) + 1
           new == wrap(cause, message)
           h == Append([heap EXCEPT ![cause.n].message = message \o @], new)
       IN  /\ heap' = h
           /\ wrapLog' = Append(wrapLog,
                  [cause |-> cause, message |-> message, result |-> Ref(a),
                   unwrapped |-> unwrap(new), ownMessage |-> new.message,
                   ownName |-> new.name, rendered |-> toString(h, Ref(a)),
                   root |-> WrappedErrorCause(h, Ref(a)).result])
    /\ UNCHANGED <<walk, tryVars, dropVars>>

\* Errors.wrap that keeps the wrappers it made and returns the one made
\* before for the same cause and message.
Wrap_Cached(cause, message) ==
    /\ Len(heap) < MaxObjects
    /\ LET a == Len(heap) + 1
           new == wrap(cause, message)
           same == {i \in DOMAIN wrapLog :
                       wrapLog[i].cause = cause /\ wrapLog[i].message = message}
       IN  IF same = {}
           THEN /\ heap' = Append(heap, new)
                /\ wrapLog' = Append(wrapLog,
                       [cause |-> cause, message |-> message, result |-> Ref(a),
                        unwrapped |-> unwrap(new), ownMessage |-> new.message,
                        ownName |-> new.name,
                        rendered |-> toString(Append(heap, new), Ref(a)),
                        root |-> WrappedErrorCause(Append(heap, new), Ref(a)).result])
           ELSE /\ heap' = heap
                /\ wrapLog' = Append(wrapLog, wrapLog[CHOOSE i \in same : TRUE])
    /\ UNCHANGED <<walk, tryVars, dropVars>>

\* A caller wraps an existing error: Errors.wrap(cause, message), and reads
\* the new error back through unwrap(), .message, toString() and
\* WrappedError.cause.
Wrap(cause, message) ==
    /\ Len(heap) < MaxObjects
    /\ LET a == Len(heap) + 1
           new == wrap(cause, message)
       IN  /\ heap' = Append(heap, new)
           /\ wrapLog' = Append(wrapLog,
                  [cause |-> cause, message |-> message, result |-> Ref(a),
                   unwrapped |-> unwrap(new), ownMessage |-> new.message,
                   ownName |-> new.name,
                   rendered |-> toString(Append(heap, new), Ref(a)),
                   root |-> WrappedErrorCause(Append(heap, new), Ref(a)).result])
    /\ UNCHANGED <<walk, tryVars, dropVars>>

\* The error values that exist: one per object of the heap.
ErrorValues == {Ref(a) : a \in DOMAIN heap}

\* The cause fields a plain Error may be created with: none, undefined,
\* null, a string, or an existing error.
Causes == {<<FALSE, Undefined>>, <<TRUE, Undefined>>, <<TRUE, Null>>,
           <<TRUE, Str(<<"a">>)>>}
              \cup {<<TRUE, e>> : e \in ErrorValues}

(***************************************************************************)
(* src/db/scripts/drop.ts.                                                 *)
(***************************************************************************)
IsSpace(ch) == ch \in {" ", "\t"}

RECURSIVE trimStart(_)
trimStart(str) ==
    IF str # <<>> /\ IsSpace(Head(str)) THEN trimStart(Tail(str)) ELSE str

RECURSIVE trimEnd(_)
trimEnd(str) ==
    IF str # <<>> /\ IsSpace(str[Len(str)])
    THEN trimEnd(SubSeq(str, 1, Len(str) - 1))
    ELSE str

\* A test of the name as it stands: `!schemaName`, without trim().
trim_Identity(str) == str

\* String.prototype.trim: white space removed at both ends.
trim(str) == trimEnd(trimStart(str))

\* The command-line arguments: empty, white space only, plain, and padded.
Names == {<<>>, <<" ", "\t">>, <<"a">>, <<" ", "b", " ">>}

ArgLists == UNION {[1..n -> Names] : n \in 0..MaxNames}

\* How a drop statement may settle: resolved with a query result or with
\* nothing, rejected with an error object or with a falsy value.
DropSettlements ==
    [state : {"fulfilled"}, val : {Ref(2), Undefined}]
        \cup [state : {"rejected"}, val : {Ref(1), Null, Str(<<>>), Undefined}]

Line(stream, text, schema, arg) ==
    [stream |-> stream, text |-> text, schema |-> schema, arg |-> arg]

NoOpLine == Line("log", "No schemas specified to drop.", <<>>, Undefined)
SkipLine == Line("warn", "Skipping empty schema name.", <<>>, Undefined)
ErrorLine(schemaName, error) ==
    Line("error", "Error dropping schema ${schemaName}:", schemaName, error)
DroppedLine(schemaName) ==
    Line("log", "Successfully dropped schema: ${schemaName}", schemaName, Undefined)
AllDroppedLine ==
    Line("log", "All specified schemas dropped successfully.", <<>>, Undefined)
SomeFailedLine == Line("error", "Some schemas failed to drop.", <<>>, Undefined)
UnhandledLine(error) == Line("error", "unhandled rejection", <<>>, error)

\* The empty-list branch without its process.exit(0): the message is
\* printed and the function goes on.
DropStart_FallsThrough ==
    /\ pc = "start"
    /\ console' = (IF Len(schemaNames) = 0 THEN Append(console, NoOpLine) ELSE console)
    /\ success' = TRUE
    /\ idx' = 1
    /\ pc' = "loop"
    /\ UNCHANGED <<schemaNames, inflight, issued, settled, exitCode, tryVars, wrapVars>>

\* The length test made on the list with its blank entries filtered out: a
\* list of blank entries takes the empty-list branch.
DropStart_FiltersBlank ==
    /\ pc = "start"
    /\ IF \A i \in DOMAIN schemaNames : trim(schemaNames[i]) = <<>>
       THEN /\ console' = Append(console, NoOpLine)
            /\ exitCode' = 0
            /\ pc' = "exited"
            /\ UNCHANGED <<success, idx>>
       ELSE /\ success' = TRUE
            /\ idx' = 1
            /\ pc' = "loop"
            /\ UNCHANGED <<console, exitCode>>
    /\ UNCHANGED <<schemaNames, inflight, issued, settled, tryVars, wrapVars>>

\* dropSchemas(schemaNames), up to the loop: an empty list prints the
\* message and ends the process with status 0.
DropStart ==
    /\ pc = "start"
    /\ IF Len(schemaNames) = 0
       THEN /\ console' = Append(console, NoOpLine)
            /\ exitCode' = 0
            /\ pc' = "exited"
            /\ UNCHANGED <<success, idx>>
       ELSE /\ success' = TRUE
            /\ idx' = 1
            /\ pc' = "loop"
            /\ UNCHANGED <<console, exitCode>>
    /\ UNCHANGED <<schemaNames, inflight, issued, settled, tryVars, wrapVars>>

\* The loop at an entry that is empty once trimmed: warn and continue.
DropSkip ==
    /\ pc = "loop"
    /\ idx <= Len(schemaNames)
    /\ ~Truthy(Str(trim(schemaNames[idx])))
    /\ console' = Append(console, SkipLine)
    /\ idx' = idx + 1
    /\ UNCHANGED <<schemaNames, pc, success, inflight, issued, settled, exitCode,
                   tryVars, wrapVars>>

\* The statement issued without awaiting its promise: the loop goes on.
DropIssue_NoAwait ==
    /\ pc = "loop"
    /\ idx <= Len(schemaNames)
    /\ Truthy(Str(trim(schemaNames[idx])))
    /\ issued' = Append(issued, schemaNames[idx])
    /\ inflight' = Pending
    /\ idx' = idx + 1
    /\ UNCHANGED <<schemaNames, pc, success, settled, console, exitCode,
                   tryVars, wrapVars>>

\* The loop at any other entry: db.execute(DROP SCHEMA ...) is called with
\* the name as given, and its promise is handed to Errors.try and awaited.
DropIssue ==
    /\ pc = "loop"
    /\ idx <= Len(schemaNames)
    /\ Truthy(Str(trim(schemaNames[idx])))
    /\ issued' = Append(issued, schemaNames[idx])
    /\ inflight' = Pending
    /\ pc' = "await"
    /\ UNCHANGED <<schemaNames, idx, success, settled, console, exitCode,
                   tryVars, wrapVars>>

\* The database answers the statement in flight.
DropSettle(settlement) ==
    /\ pc = "await"
    /\ inflight.state = "pending"
    /\ inflight' = settlement
    /\ settled' = Append(settled, settlement)
    /\ UNCHANGED <<schemaNames, pc, idx, success, issued, console, exitCode,
                   tryVars, wrapVars>>

\* The error branch leaving the loop (a `break` after success = false).
DropResume_StopsOnFailure ==
    /\ pc = "await"
    /\ inflight.state # "pending"
    /\ LET result == tryCatch(inflight)
           schemaName == schemaNames[idx]
       IN  IF Truthy(result.error)
           THEN /\ console' = Append(console, ErrorLine(schemaName, result.error))
                /\ success' = FALSE
                /\ idx' = Len(schemaNames) + 1
           ELSE /\ console' = Append(console, DroppedLine(schemaName))
                /\ idx' = idx + 1
                /\ UNCHANGED success
    /\ pc' = "loop"
    /\ UNCHANGED <<schemaNames, inflight, issued, settled, exitCode, tryVars, wrapVars>>

\* Errors.try returns; `if (result.error)` chooses the line to print. A
\* failure that escaped Errors.try would reject dropSchemas, whose promise
\* nobody handles: the runtime reports it and ends the process with status 1.
DropResume ==
    /\ pc = "await"
    /\ inflight.state # "pending"
    /\ LET result == tryCatch(inflight)
           schemaName == schemaNames[idx]
       IN  IF result.completion = "throw"
           THEN /\ console' = Append(console, UnhandledLine(result.error))
                /\ exitCode' = 1
                /\ pc' = "exited"
                /\ UNCHANGED <<success, idx>>
           ELSE /\ IF Truthy(result.error)
                   THEN /\ console' = Append(console, ErrorLine(schemaName, result.error))
                        /\ success' = FALSE
                   ELSE /\ console' = Append(console, DroppedLine(schemaName))
                        /\ UNCHANGED success
                /\ idx' = idx + 1
                /\ pc' = "loop"
                /\ UNCHANGED exitCode
    /\ UNCHANGED <<schemaNames, inflight, issued, settled, tryVars, wrapVars>>

\* The summary printed without process.exit: dropSchemas returns, and the
\* process stays alive on the open database connection.
DropReport_NoExit ==
    /\ pc = "loop"
    /\ idx > Len(schemaNames)
    /\ console' = Append(console, IF success THEN AllDroppedLine ELSE SomeFailedLine)
    /\ pc' = "returned"
    /\ UNCHANGED <<schemaNames, idx, success, inflight, issued, settled, exitCode,
                   tryVars, wrapVars>>

\* After the loop: the summary line and the exit status.
DropReport ==
    /\ pc = "loop"
    /\ idx > Len(schemaNames)
    /\ IF success
       THEN /\ console' = Append(console, AllDroppedLine)
            /\ exitCode' = 0
       ELSE /\ console' = Append(console, SomeFailedLine)
            /\ exitCode' = 1
    /\ pc' = "exited"
    /\ UNCHANGED <<schemaNames, idx, success, inflight, issued, settled,
                   tryVars, wrapVars>>

(***************************************************************************)
(* Properties of the drop-schema script (under DropSpec).                  *)
(***************************************************************************)
\* Empty, or white space only.
IsBlank(str) == \A i \in DOMAIN str : IsSpace(str[i])
NonBlank(str) == ~IsBlank(str)

IsStatusLine(line) ==
    line.text \in {"Error dropping schema ${schemaName}:",
                   "Successfully dropped schema: ${schemaName}"}

\* The per-schema status lines printed so far, in order.
StatusLines == SelectSeq(console, IsStatusLine)

\* C5: the script exits 0 if every drop it attempted resolved, and 1 if at
\* least one rejected, wherever in the list and with whatever value.
C5_ExitStatus ==
    (pc = "exited" /\ schemaNames # <<>>) =>
        exitCode = (IF \A i \in DOMAIN settled : settled[i].state = "fulfilled"
                    THEN 0 ELSE 1)

\* C6: an entry that is empty or white space only is skipped with a warning:
\* no statement is ever issued for such a name, and the step that meets one
\* prints the warning, leaves the issued statements and the success flag as
\* they are, and moves the loop on to the next entry.
C6_BlankSkipped ==
    /\ [](\A i \in DOMAIN issued : NonBlank(issued[i]))
    /\ [][(pc = "loop" /\ idx <= Len(schemaNames) /\ IsBlank(schemaNames[idx])) =>
            /\ console' = Append(console, SkipLine)
            /\ issued' = issued
            /\ success' = success
            /\ idx' = idx + 1
            /\ pc' = "loop"]_vars

\* The script ended on a list with a white-space entry between two names:
\* the entry was skipped and the name after it was still dropped.
C6_Witness ==
    /\ pc = "exited"
    /\ schemaNames = <<(<<"a">>), (<<" ", "\t">>), (<<" ", "b", " ">>)>>
    /\ issued = <<(<<"a">>), (<<" ", "b", " ">>)>>
    /\ \E i \in DOMAIN console : console[i] = SkipLine

\* C7: on an empty list the script prints the no-op message and exits 0;
\* it issues no statement, and neither the loop nor the final report runs.
C7_EmptyListNoOp ==
    schemaNames = <<>> =>
        /\ pc \in {"start", "exited"}
        /\ issued = <<>>
        /\ pc = "start" => (console = <<>> /\ exitCode = -1)
        /\ pc = "exited" => (console = <<NoOpLine>> /\ exitCode = 0)

\* The script has exited on an empty list.
C7_Witness == schemaNames = <<>> /\ pc = "exited" /\ exitCode = 0

\* C8: each issued statement gets exactly one status line, for its own
\* schema name: the success line if and only if it resolved, the error line
\* (with the success flag cleared) if and only if it rejected.
C8_StatusMatchesOutcome ==
    /\ Len(StatusLines) =
          (IF pc = "await" THEN Len(issued) - 1 ELSE Len(issued))
    /\ \A i \in DOMAIN StatusLines :
          /\ StatusLines[i].schema = issued[i]
          /\ StatusLines[i] = DroppedLine(issued[i]) <=> settled[i].state = "fulfilled"
          /\ StatusLines[i] = ErrorLine(issued[i], settled[i].val)
                <=> settled[i].state = "rejected"
          /\ settled[i].state = "rejected" => ~success

\* The number of entries of the list the loop has dealt with or is dealing
\* with: all before idx, and the one at idx while its statement is awaited.
Processed == IF pc = "await" THEN idx ELSE IF idx = 0 THEN 0 ELSE idx - 1

\* C19: one drop statement is issued for every non-blank entry, as often as
\* the entry occurs: the statements issued are the non-blank entries dealt
\* with so far, none twice for a failure, and a failed drop does not end the
\* loop: at exit every entry of the list has been dealt with.
C19_OneDropPerEntry ==
    /\ issued = SelectSeq(SubSeq(schemaNames, 1, Processed), NonBlank)
    /\ (pc = "exited" /\ schemaNames # <<>>) =>
          /\ Processed = Len(schemaNames)
          /\ issued = SelectSeq(schemaNames, NonBlank)
          /\ Len(settled) = Len(issued)

\* The script ended on a list naming one schema twice, then another: the
\* first drop failed, and all three statements were issued.
C19_Witness ==
    /\ pc = "exited"
    /\ schemaNames = <<(<<"a">>), (<<"a">>), (<<" ", "b", " ">>)>>
    /\ settled[1] = [state |-> "rejected", val |-> Ref(1)]
    /\ Len(issued) = 3

\* C20: the statements are issued in the order of the list and one at a
\* time: at most one is in flight, and a statement is issued only when every
\* statement issued before has settled and had its status line printed; it is
\* the statement for the entry the loop is at, and the loop never goes back.
C20_OneAtATime ==
    /\ [](/\ Len(issued) - Len(settled) \in {0, 1}
          /\ Len(issued) - Len(StatusLines) \in {0, 1}
          /\ pc # "await" => (Len(settled) = Len(issued)
                               /\ Len(StatusLines) = Len(issued)))
    /\ [][/\ idx' >= idx
          /\ issued' # issued =>
                /\ Len(settled) = Len(issued)
                /\ Len(StatusLines) = Len(issued)
                /\ issued' = Append(issued, schemaNames[idx])
                /\ idx' = idx
          /\ (pc = "await" /\ pc' # "await") => idx' = idx + 1]_vars

\* A second statement is in flight after the first settled and had its
\* status printed.
C20_Witness ==
    /\ pc = "await"
    /\ inflight.state = "pending"
    /\ Len(issued) = 2
    /\ Len(settled) = 1
    /\ Len(StatusLines) = 1

\* The script is suspended at its await on a statement the database has not
\* answered.
AwaitingPending == pc = "await" /\ inflight.state = "pending"

\* C21: if every issued drop statement eventually settles, the script
\* eventually exits; if one never settles, it never exits (there is no
\* timeout). It exits once: the status is 0 or 1, nothing happens after the
\* exit, and at the exit every entry of the list has been skipped or
\* attempted and every statement issued has settled.
C21_ExitsOnceAfterAll ==
    /\ (AwaitingPending ~> ~AwaitingPending) => <>(pc = "exited")
    /\ (<>[]AwaitingPending) => [](pc # "exited")
    /\ [](pc = "exited" => /\ exitCode \in {0, 1}
                           /\ Processed = Len(schemaNames)
                           /\ Len(settled) = Len(issued))
    /\ [](pc # "exited" => exitCode = -1)
    /\ [][pc = "exited" => vars' = vars]_vars

\* The script has exited on a list of three entries, one skipped and two
\* attempted, the first of which failed.
C21_Witness ==
    /\ pc = "exited"
    /\ exitCode = 1
    /\ schemaNames = <<(<<"a">>), (<<>>), (<<" ", "b", " ">>)>>
    /\ Len(issued) = 2
    /\ Len(settled) = 2
    /\ settled[1].state = "rejected"

\* The list is not empty and each of its entries is blank.
AllBlank == schemaNames # <<>> /\ \A i \in DOMAIN schemaNames : IsBlank(schemaNames[i])

\* C22: on a non-empty list of blank entries the script issues no drop
\* statement and never prints the no-op message; it exits with status 0, and
\* what it has printed at the exit is one skip warning for each entry
\* followed by the all-succeeded message.
C22_AllBlankList ==
    AllBlank =>
        /\ issued = <<>>
        /\ \A i \in DOMAIN console : console[i] # NoOpLine
        /\ pc = "exited" =>
              /\ exitCode = 0
              /\ console = [i \in 1..Len(schemaNames) |-> SkipLine] \o <<AllDroppedLine>>

\* The script has exited on a list of an empty and a white-space entry.
C22_Witness ==
    /\ pc = "exited"
    /\ schemaNames = <<(<<>>), (<<" ", "\t">>)>>
    /\ Len(console) = 3

(***************************************************************************)
(* Properties of Errors.wrap (under WrapSpec).                             *)
(***************************************************************************)
\* C10: Errors.wrap(cause, message).unwrap() is cause itself (the same
\* object), and the message of the new error is message.
C10_UnwrapIsCause ==
    \A i \in DOMAIN wrapLog :
        /\ wrapLog[i].unwrapped = wrapLog[i].cause
        /\ wrapLog[i].ownMessage = wrapLog[i].message
        /\ unwrap(heap[wrapLog[i].result.n]) = wrapLog[i].cause
        /\ heap[wrapLog[i].result.n].message = wrapLog[i].message

\* A wrapped error was wrapped again, under another message, while a second
\* error object exists.
C10_Witness ==
    \E i, j \in DOMAIN wrapLog :
        /\ wrapLog[j].cause = wrapLog[i].result
        /\ wrapLog[i].cause # wrapLog[j].cause
        /\ wrapLog[i].message = <<"B">>
        /\ wrapLog[j].message = <<"A">>

\* The errors made by Errors.wrap, and for each the call that made it.
WrapResults == {wrapLog[i].result : i \in DOMAIN wrapLog}
WrapCallOf(e) == CHOOSE i \in DOMAIN wrapLog : wrapLog[i].result = e

\* The error the innermost Errors.wrap of a chain was given, and the number
\* of Errors.wrap calls above it.
RECURSIVE WrapRoot(_)
WrapRoot(e) ==
    IF e \in WrapResults THEN WrapRoot(wrapLog[WrapCallOf(e)].cause) ELSE e

RECURSIVE WrapDepth(_)
WrapDepth(e) ==
    IF e \in WrapResults THEN 1 + WrapDepth(wrapLog[WrapCallOf(e)].cause) ELSE 0

\* An error whose cause field, if it has one, does not hold an Error.
NonChained(e) == ~(heap[e.n].hasCause /\ heap[e.n].cause \in ErrorValues)

\* C11: for an error built by one or more nested Errors.wrap calls over a
\* root cause (an error that is not chained itself), WrappedError.cause
\* returns that root cause, the same object, after one step per wrap.
C11_WalkReachesRoot ==
    (walk.called /\ walk.start \in WrapResults /\ NonChained(WrapRoot(walk.start))) =>
        /\ walk.result = WrapRoot(walk.start)
        /\ walk.steps = WrapDepth(walk.start)

\* The walk ran on a chain of two wraps and returned the plain error below.
C11_Witness ==
    /\ walk.called
    /\ WrapDepth(walk.start) = 2
    /\ walk.result = Ref(1)
    /\ walk.result # walk.start

\* The messages of a chain of wraps, outermost first, each followed by ": ",
\* and then the rendering of the error the innermost wrap was given.
RECURSIVE ChainRendering(_)
ChainRendering(e) ==
    IF e \in WrapResults
    THEN wrapLog[WrapCallOf(e)].message \o <<":", " ">>
             \o ChainRendering(wrapLog[WrapCallOf(e)].cause)
    ELSE ErrorToString(heap[e.n])

\* C13: a chained error renders as its message, ": " and the rendering of
\* its immediate cause, recursively: n wraps render their n messages
\* outermost first, then the root's rendering.
C13_RenderingOfChain ==
    \A i \in DOMAIN wrapLog :
        /\ wrapLog[i].rendered = ChainRendering(wrapLog[i].result)
        /\ toString(heap, wrapLog[i].result) = ChainRendering(wrapLog[i].result)

\* wrap(wrap(rootCause, "B"), "A") was rendered as "A: B: Error: A".
C13_Witness ==
    \E i \in DOMAIN wrapLog :
        /\ WrapDepth(wrapLog[i].result) = 2
        /\ wrapLog[i].rendered =
              <<"A", ":", " ", "B", ":", " ", "E", "r", "r", "o", "r", ":", " ", "A">>

\* The number of cause links that can be followed from object a, counted up
\* to `fuel`.
RECURSIVE LinksFrom(_, _, _)
LinksFrom(h, a, fuel) ==
    IF fuel = 0 \/ ~(h[a].hasCause /\ h[a].cause.t = "object" /\ h[a].cause.n \in DOMAIN h)
    THEN 0
    ELSE 1 + LinksFrom(h, h[a].cause.n, fuel - 1)

\* C14: no operation of the Errors module produces an error whose cause
\* chain has a cycle (among n objects, no chain has n links; each cause is
\* an older object), so a walk WrappedError.cause has made ends after at most
\* as many steps as the chain of its argument has links.
C14_NoCycleWalkBounded ==
    /\ \A a \in DOMAIN heap :
          /\ LinksFrom(heap, a, Len(heap)) < Len(heap)
          /\ heap[a].cause.t = "object" => heap[a].cause.n < a
    /\ walk.called =>
          /\ walk.steps <= LinksFrom(heap, walk.start.n, Len(heap))
          /\ walk.steps < Len(heap)

\* The walk took two steps, down a chain of three objects.
C14_Witness ==
    /\ walk.called
    /\ walk.steps = 2
    /\ Len(heap) = 3
    /\ LinksFrom(heap, 3, 3) = 2

\* C15: a chained error never changes after Errors.wrap made it: in every
\* later state its message and cause are those given to wrap, and unwrap(),
\* the chain walk and the rendering give what they gave at creation.
C15_ChainedErrorImmutable ==
    /\ [](\A i \in DOMAIN wrapLog :
            LET e == wrapLog[i].result
            IN  /\ heap[e.n].message = wrapLog[i].message
                /\ heap[e.n].cause = wrapLog[i].cause
                /\ unwrap(heap[e.n]) = wrapLog[i].unwrapped
                /\ WrappedErrorCause(heap, e).result = wrapLog[i].root
                /\ toString(heap, e) = wrapLog[i].rendered)
    /\ [][\A e \in WrapResults : heap'[e.n] = heap[e.n]]_vars

\* A chained error was wrapped again and the walk was run, after it was made.
C15_Witness ==
    /\ \E i, j \in DOMAIN wrapLog : i < j /\ wrapLog[j].cause = wrapLog[i].result
    /\ walk.called
    /\ walk.start \in WrapResults

\* C17: two calls of Errors.wrap with the same cause and the same message
\* give two distinct errors, each unwrapping to that same cause and both
\* rendering the same string; no call changes the cause, the other wrapper
\* or any other existing error.
C17_WrapTwice ==
    /\ [](\A i, j \in DOMAIN wrapLog :
            (i # j /\ wrapLog[i].cause = wrapLog[j].cause
                   /\ wrapLog[i].message = wrapLog[j].message) =>
                /\ wrapLog[i].result # wrapLog[j].result
                /\ unwrap(heap[wrapLog[i].result.n]) = wrapLog[i].cause
                /\ unwrap(heap[wrapLog[j].result.n]) = wrapLog[i].cause
                /\ wrapLog[i].rendered = wrapLog[j].rendered
                /\ toString(heap, wrapLog[i].result) = toString(heap, wrapLog[j].result))
    /\ [][\A a \in DOMAIN heap : a \in DOMAIN heap' /\ heap'[a] = heap[a]]_vars

\* The same error was wrapped twice under the same message.
C17_Witness ==
    \E i, j \in DOMAIN wrapLog :
        /\ i # j
        /\ wrapLog[i].cause = wrapLog[j].cause
        /\ wrapLog[i].message = wrapLog[j].message
        /\ wrapLog[i].result # wrapLog[j].result

\* C12 as stated: given a plain error, not made by Errors.wrap, with or
\* without a cause field of its own, WrappedError.cause returns that error.
C12_PlainReturnsItself ==
    (walk.called /\ walk.start \notin WrapResults) => walk.result = walk.start

\* C12 amended: given a plain error, WrappedError.cause returns that same
\* error when it has no cause field or its cause field holds null, undefined
\* or a value that is not an Error; when its cause field holds an Error, it
\* returns another, earlier error instead: one at the end of that cause
\* chain, whose own cause field holds no Error.
C12_PlainReturnsItselfUnlessChained ==
    (walk.called /\ walk.start \notin WrapResults) =>
        /\ NonChained(walk.start) => (walk.result = walk.start /\ walk.steps = 0)
        /\ ~NonChained(walk.start) =>
              /\ walk.result \in ErrorValues
              /\ walk.result.n < walk.start.n
              /\ NonChained(walk.result)
              /\ walk.steps >= 1

\* The walk ran on a plain error whose cause field holds a plain error and
\* returned the latter, while a plain error with a null cause exists too.
C12_Witness ==
    /\ walk.called
    /\ walk.start \notin WrapResults
    /\ heap[walk.start.n].cause = Ref(1)
    /\ walk.result = Ref(1)
    /\ \E a \in DOMAIN heap : heap[a].hasCause /\ heap[a].cause = Null

\* The value k cause links away from e, or undefined when fewer than k links
\* can be followed.
RECURSIVE Follow(_, _)
Follow(e, k) ==
    IF k = 0 THEN e
    ELSE IF e \in ErrorValues /\ heap[e.n].hasCause THEN Follow(heap[e.n].cause, k - 1)
    ELSE Undefined

\* An error at which a walk ends: no cause field, a null or undefined cause,
\* or a cause that is not an Error.
Terminal(e) ==
    \/ ~heap[e.n].hasCause
    \/ heap[e.n].cause \in {Null, Undefined}
    \/ heap[e.n].cause \notin ErrorValues

\* C23: for every error given to WrappedError.cause, wrapped or plain, the
\* value returned is an error reached from the argument by following as many
\* cause links as the walk took steps (zero or more), and it is terminal; the
\* cause of a plain Error is followed like that of a WrappedError (the
\* argument is returned only if it is terminal itself); and the walk changes
\* no object.
C23_WalkEndsAtTerminal ==
    /\ [](walk.called =>
            /\ walk.start \in ErrorValues
            /\ walk.result \in ErrorValues
            /\ walk.steps \in 0..(Len(heap) - 1)
            /\ Follow(walk.start, walk.steps) = walk.result
            /\ Terminal(walk.result)
            /\ (walk.result = walk.start) <=> Terminal(walk.start)
            /\ \A k \in 0..(walk.steps - 1) : ~Terminal(Follow(walk.start, k)))
    /\ [][walk' # walk => heap' = heap]_vars

\* The walk ran on a plain Error whose cause is an error, and ended at an
\* error whose cause field holds a string; an error with an undefined cause
\* field exists too.
C23_Witness ==
    /\ walk.called
    /\ heap[walk.start.n].class = "Error"
    /\ walk.steps >= 1
    /\ heap[walk.result.n].hasCause
    /\ heap[walk.result.n].cause = Str(<<"a">>)
    /\ \E a \in DOMAIN heap : heap[a].hasCause /\ heap[a].cause = Undefined

(***************************************************************************)
(* Properties of Errors.try and Errors.trySync (under Spec).               *)
(***************************************************************************)
DoneCalls == {c \in DOMAIN calls : calls[c].pc = "done"}
DoneTry == {c \in DoneCalls : calls[c].fn = "try"}
DoneSync == {c \in DoneCalls : calls[c].fn = "trySync"}

\* What the operation wrapped by call c produced: the settlement of its
\* promise, or the completion of that invocation of its callable.
Wrapped(c) ==
    IF calls[c].fn = "try"
    THEN Await(calls[c].promise)
    ELSE Invoke(calls[c].callable, calls[c].before)

Populated(v) == v # Undefined

\* C1: when the promise given to Errors.try resolves with v, whatever v is
\* (0, "", undefined included), the call returns {data: v, error: undefined}.
C1_ResolvedGivesOk ==
    \A c \in DoneTry :
        calls[c].promise.state = "fulfilled" =>
            /\ calls[c].result.completion = "return"
            /\ calls[c].result.data = calls[c].promise.val
            /\ calls[c].result.error = Undefined

\* A call completed on a promise resolved with 0, and one resolved with undefined.
C1_Witness ==
    /\ \E c \in DoneTry : calls[c].promise = [state |-> "fulfilled", val |-> Num(0)]
    /\ \E c \in DoneTry : calls[c].promise = [state |-> "fulfilled", val |-> Undefined]

\* C2: when the promise given to Errors.try rejects with e, the call returns
\* {data: undefined, error: e}, e being the very value of the rejection (for
\* an object: the same object, not another one around or beside it).
C2_RejectedGivesErr ==
    \A c \in DoneTry :
        calls[c].promise.state = "rejected" =>
            /\ calls[c].result.completion = "return"
            /\ calls[c].result.data = Undefined
            /\ calls[c].result.error = calls[c].promise.val

\* Two calls completed on promises rejected with two distinct error objects.
C2_Witness ==
    /\ \E c \in DoneTry : calls[c].promise = [state |-> "rejected", val |-> Ref(1)]
    /\ \E c \in DoneTry : calls[c].promise = [state |-> "rejected", val |-> Ref(2)]

\* C3: Errors.trySync(fn) invokes fn exactly once, and returns
\* {data: v, error: undefined} when that invocation returns v and
\* {data: undefined, error: e} when it throws e.
C3_TrySyncOnce ==
    /\ \A c \in DoneSync :
          LET r == Invoke(calls[c].callable, calls[c].before)
          IN  /\ calls[c].result.trace = <<r>>
              /\ calls[c].result.completion = "return"
              /\ calls[c].result.data = (IF r.threw THEN Undefined ELSE r.val)
              /\ calls[c].result.error = (IF r.threw THEN r.val ELSE Undefined)
    /\ \A f \in Callables :
          fnInvocations[f] = Cardinality({c \in DoneSync : calls[c].callable = f})

\* trySync ran twice on the callable with a side effect (which returned 0,
\* then 1).
C3_Witness ==
    \E c \in DoneSync :
        /\ calls[c].callable.kind = "counter"
        /\ calls[c].before = 1
        /\ calls[c].result.data = Num(1)

\* C4 as stated: every outcome has exactly one slot populated, and the error
\* slot is populated exactly when the wrapped operation failed.
C4_ExactlyOneSlot ==
    \A c \in DoneCalls :
        /\ Populated(calls[c].result.data) # Populated(calls[c].result.error)
        /\ Populated(calls[c].result.error) <=> Wrapped(c).threw

\* C4 amended: no outcome has both slots populated; the outcome of a
\* success has an undefined error slot, and the outcome of a failure an
\* undefined data slot; exactly one slot is populated, and the error slot
\* tells failure from success, whenever the value resolved, returned,
\* rejected or thrown is not undefined.
C4_AtMostOneSlot ==
    \A c \in DoneCalls :
        LET w == Wrapped(c)
            r == calls[c].result
        IN  /\ ~(Populated(r.data) /\ Populated(r.error))
            /\ ~w.threw => ~Populated(r.error)
            /\ w.threw => ~Populated(r.data)
            /\ Populated(w.val) =>
                  /\ Populated(r.data) # Populated(r.error)
                  /\ Populated(r.error) <=> w.threw

\* One call completed on a rejection with an object, another on a
\* rejection with undefined.
C4_Witness ==
    /\ \E c \in DoneTry : calls[c].promise = [state |-> "rejected", val |-> Ref(1)]
    /\ \E c \in DoneTry : calls[c].promise = [state |-> "rejected", val |-> Undefined]

\* C9: no call of Errors.try rejects and no call of Errors.trySync throws:
\* every completed call returned an outcome, and when the wrapped operation
\* failed with e (an Error, a non-Error, null, undefined) the outcome's
\* error slot holds e.
C9_NeverPropagates ==
    \A c \in DoneCalls :
        /\ calls[c].result.completion = "return"
        /\ Wrapped(c).threw => calls[c].result.error = Wrapped(c).val

\* Errors.try completed on a rejection with null, and Errors.trySync on a
\* callable throwing a string.
C9_Witness ==
    /\ \E c \in DoneTry : calls[c].promise = [state |-> "rejected", val |-> Null]
    /\ \E c \in DoneSync : calls[c].callable = [kind |-> "throws", val |-> Str(<<"a">>)]

\* C18: concurrent calls of Errors.try share no state: with several calls
\* outstanding on different promises, in any order of settlement and
\* resumption, the outcome of each holds the value or error of its own
\* promise only; a step completes at most one call, and no step changes a
\* call that has completed or the promise of another call.
C18_CallsIndependent ==
    /\ [](\A c \in DoneTry :
            LET p == calls[c].promise
            IN  /\ calls[c].result.completion = "return"
                /\ calls[c].result.data =
                      (IF p.state = "fulfilled" THEN p.val ELSE Undefined)
                /\ calls[c].result.error =
                      (IF p.state = "rejected" THEN p.val ELSE Undefined))
    /\ [][/\ \A c \in DOMAIN calls : calls[c].pc = "done" => calls'[c] = calls[c]
          /\ \A c, d \in DOMAIN calls :
                (c # d /\ calls'[c] # calls[c]) => calls'[d] = calls[d]]_vars

\* Two calls were outstanding; the second has completed on a rejection while
\* the first, whose promise resolved with 0, has not been resumed yet.
C18_Witness ==
    /\ Len(calls) = 2
    /\ calls[1].fn = "try" /\ calls[1].pc = "await"
    /\ calls[1].promise = [state |-> "fulfilled", val |-> Num(0)]
    /\ calls[2].fn = "try" /\ calls[2].pc = "done"
    /\ calls[2].promise = [state |-> "rejected", val |-> Ref(1)]
    /\ calls[2].result.error = Ref(1)

(***************************************************************************)
(* Properties of the Errors bundle (under BundleSpec).                     *)
(***************************************************************************)
\* C16: whatever assignments to Errors.try, Errors.trySync, Errors.wrap or
\* Errors.WrappedError are attempted, each of the four still holds the
\* original function or class, and a call made through the bundle behaves
\* as the original does.
C16_BundleReadOnly ==
    /\ Errors.props["try"] = "tryCatch"
    /\ Errors.props["trySync"] = "trySync"
    /\ Errors.props["wrap"] = "wrap"
    /\ Errors.props["WrappedError"] = "WrappedError"
    /\ \A i \in DOMAIN assigned : assigned[i].threw
    /\ \A c \in DoneSync :
          LET r == Invoke(calls[c].callable, calls[c].before)
          IN  /\ calls[c].result.completion = "return"
              /\ calls[c].result.data = (IF r.threw THEN Undefined ELSE r.val)
              /\ calls[c].result.error = (IF r.threw THEN r.val ELSE Undefined)

\* Assignments to Errors.trySync and to another entry were attempted, and
\* Errors.trySync was called afterwards.
C16_Witness ==
    /\ Len(assigned) = 2
    /\ assigned[1].key = "trySync"
    /\ assigned[2].key # "trySync"
    /\ \E c \in DoneSync : c > assigned[2].callsBefore

(***************************************************************************)
(* Initial states and specifications.                                      *)
(***************************************************************************)
TryIdle ==
    /\ calls = <<>>
    /\ fnInvocations = [f \in Callables |-> 0]
    /\ Errors = ErrorsModule
    /\ assigned = <<>>

WrapIdle ==
    /\ heap = <<>>
    /\ wrapLog = <<>>
    /\ walk = NoWalk

DropIdle ==
    /\ schemaNames = <<>>
    /\ pc = "idle"
    /\ idx = 0
    /\ success = TRUE
    /\ inflight = Pending
    /\ issued = <<>>
    /\ settled = <<>>
    /\ console = <<>>
    /\ exitCode = -1

Init == TryIdle /\ WrapIdle /\ DropIdle

Next ==
    \/ \E promise \in Promises : TryCall(promise)
    \/ \E c \in DOMAIN calls, state \in {"fulfilled", "rejected"}, v \in Values :
          Settle(c, state, v)
    \/ \E c \in DOMAIN calls : TryResume(c)
    \/ \E f \in Callables : TrySyncCall(f)

Spec == Init /\ [][Next]_vars

\* The callables called through the bundle: one that returns a falsy value,
\* one that throws an error object, and the one with a side effect.
BundleCallables ==
    {[kind |-> "returns", val |-> Num(0)], [kind |-> "throws", val |-> Ref(1)],
     [kind |-> "counter", val |-> Undefined]}

BundleNext ==
    \/ \E key \in Keys : Assign(key)
    \/ \E f \in BundleCallables : TrySyncCall(f)

BundleSpec == Init /\ [][BundleNext]_vars

WrapInit == TryIdle /\ WrapIdle /\ DropIdle

WrapNext ==
    \/ \E message \in Messages, c \in Causes : NewError(message, c[1], c[2])
    \/ \E cause \in ErrorValues, message \in Messages : Wrap(cause, message)
    \/ \E error \in ErrorValues : CauseCall(error)

WrapSpec == WrapInit /\ [][WrapNext]_vars

DropInit ==
    /\ TryIdle
    /\ WrapIdle
    /\ schemaNames \in ArgLists
    /\ pc = "start"
    /\ idx = 0
    /\ success = TRUE
    /\ inflight = Pending
    /\ issued = <<>>
    /\ settled = <<>>
    /\ console = <<>>
    /\ exitCode = -1

DropNext ==
    \/ DropStart
    \/ DropSkip
    \/ DropIssue
    \/ \E settlement \in DropSettlements : DropSettle(settlement)
    \/ DropResume
    \/ DropReport

DropSpec == DropInit /\ [][DropNext]_vars

\* The script under the scheduling of the runtime: a step of dropSchemas that
\* can be taken is taken (one thread, suspended only at the await). Whether
\* the database answers is left open.
DropLiveSpec ==
    /\ DropSpec
    /\ WF_vars(DropStart)
    /\ WF_vars(DropSkip)
    /\ WF_vars(DropIssue)
    /\ WF_vars(DropResume)
    /\ WF_vars(DropReport)

====
